---------------------------- MODULE Spec2Model ----------------------------
(***************************************************************************)
(* Sophia Bot (src/new.py): the keyword intent classifier, the four-flag   *)
(* route state, the router route_message, the context window taken from    *)
(* the global chat log and the completion call, as one state machine over  *)
(* a Streamlit session.                                                    *)
(*                                                                         *)
(* A string is a sequence of one-character strings, so that str.strip,     *)
(* str.lower and the regular expressions are computed character by         *)
(* character.                                                              *)
(***************************************************************************)
EXTENDS Integers, Sequences, FiniteSets, TLC

\* ------------------------------------------------------------------ bounds
\* Number of chat inputs submitted in one session.
MaxMsgs == 3

\* Number of words in a text handed to the classifier on its own.
MaxWords == 3

\* --------------------------------------------------------------- characters
UpperCh == <<"A", "B", "C", "D", "E", "F", "G", "H", "I", "J", "K", "L", "M", "N", "O", "P", "Q", "R", "S", "T", "U", "V", "W", "X", "Y", "Z">>
LowerCh == <<"a", "b", "c", "d", "e", "f", "g", "h", "i", "j", "k", "l", "m", "n", "o", "p", "q", "r", "s", "t", "u", "v", "w", "x", "y", "z">>
DigitCh == <<"0", "1", "2", "3", "4", "5", "6", "7", "8", "9">>

\* The characters str.strip() removes and \s matches.
WsChars == {" ", "\t", "\n", "\r", "\f"}

Range(f) == {f[i] : i \in DOMAIN f}

\* \w of the re module: letters, digits and the underscore.
IsWordCh(c) == c \in Range(UpperCh) \cup Range(LowerCh) \cup Range(DigitCh) \cup {"_"}

\* str.lower() on one character.
LowerOf(c) ==
  IF \E i \in DOMAIN UpperCh : UpperCh[i] = c
  THEN LowerCh[CHOOSE i \in DOMAIN UpperCh : UpperCh[i] = c]
  ELSE c

\* str.lower()
Lower(s) == [i \in DOMAIN s |-> LowerOf(s[i])]

\* str.strip(): drop the leading and the trailing whitespace.
Strip(s) ==
  LET nonWs == {i \in DOMAIN s : s[i] \notin WsChars}
  IN IF nonWs = {} THEN << >>
     ELSE LET lo == CHOOSE i \in nonWs : \A j \in nonWs : i <= j
              hi == CHOOSE i \in nonWs : \A j \in nonWs : j <= i
          IN SubSeq(s, lo, hi)

\* ------------------------------------------------------ regular expressions
\* The constructs of the re module the four patterns use.  Literals are
\* matched case-insensitively: every pattern is compiled with re.I.
Lit(s)   == [t |-> "lit", s |-> s]
Class(c) == [t |-> "class", cs |-> c]
Cat(rs)  == [t |-> "cat", rs |-> rs]
Alt(rs)  == [t |-> "alt", rs |-> rs]
Opt(r)   == [t |-> "opt", r |-> r]
Star(r)  == [t |-> "star", r |-> r]
Plus(r)  == [t |-> "plus", r |-> r]
Bol      == [t |-> "bol"]
Eol      == [t |-> "eol"]
Wb       == [t |-> "wb"]
Ws       == Class(WsChars)

WordAt(s, i) == i \in DOMAIN s /\ IsWordCh(s[i])

RECURSIVE Ends(_, _, _)
RECURSIVE CatEnds(_, _, _, _)
RECURSIVE StarEnds(_, _, _)

\* The positions at which a match of r that starts at position i of s can
\* end (a position is the index of the next unread character).
Ends(r, s, i) ==
  CASE r.t = "lit" ->
         IF /\ i + Len(r.s) - 1 <= Len(s)
            /\ \A k \in DOMAIN r.s : LowerOf(s[i + k - 1]) = LowerOf(r.s[k])
         THEN {i + Len(r.s)} ELSE {}
    [] r.t = "class" ->
         IF i \in DOMAIN s /\ s[i] \in r.cs THEN {i + 1} ELSE {}
    [] r.t = "cat"  -> CatEnds(r.rs, 1, s, {i})
    [] r.t = "alt"  -> UNION {Ends(r.rs[k], s, i) : k \in DOMAIN r.rs}
    [] r.t = "opt"  -> {i} \cup Ends(r.r, s, i)
    [] r.t = "star" -> StarEnds(r.r, s, {i})
    [] r.t = "plus" -> StarEnds(r.r, s, Ends(r.r, s, i))
    [] r.t = "bol"  -> IF i = 1 THEN {i} ELSE {}
    [] r.t = "eol"  ->
         IF \/ i = Len(s) + 1
            \/ i = Len(s) /\ s[i] = "\n"
         THEN {i} ELSE {}
    [] r.t = "wb"   -> IF WordAt(s, i - 1) # WordAt(s, i) THEN {i} ELSE {}

CatEnds(rs, k, s, P) ==
  IF k > Len(rs) THEN P
  ELSE CatEnds(rs, k + 1, s, UNION {Ends(rs[k], s, p) : p \in P})

StarEnds(r, s, P) ==
  LET N == P \cup UNION {Ends(r, s, p) : p \in P}
  IN IF N = P THEN P ELSE StarEnds(r, s, N)

\* Pattern.match: a match that starts at the beginning of s.
ReMatch(r, s) == Ends(r, s, 1) # {}

\* Pattern.search: a match that starts anywhere in s.
ReSearch(r, s) == \E i \in 1..(Len(s) + 1) : Ends(r, s, i) # {}

L_s == <<"s">>
L_es == <<"e", "s">>
L_dash == <<"-">>
L_space == <<" ">>
L_bang == <<"!">>
L_dot == <<".">>

RGX_CGM ==
  Cat(<<Wb,
        Alt(<<Cat(<<Lit(<<"c", "g", "m">>), Opt(Lit(L_s))>>),
              Cat(<<Lit(<<"c", "o", "n", "t", "i", "n", "u", "o", "u", "s">>), Plus(Ws), Lit(<<"g", "l", "u", "c", "o", "s", "e">>), Plus(Ws),
                    Lit(<<"m", "o", "n", "i", "t", "o", "r">>), Opt(Lit(L_s))>>),
              Cat(<<Lit(<<"g", "l", "u", "c", "o", "s", "e">>), Plus(Ws), Lit(<<"m", "o", "n", "i", "t", "o", "r">>), Opt(Lit(L_s))>>),
              Cat(<<Lit(<<"b", "l", "o", "o", "d">>), Plus(Ws), Lit(<<"s", "u", "g", "a", "r">>)>>),
              Lit(<<"d", "e", "x", "c", "o", "m">>),
              Cat(<<Lit(<<"f", "r", "e", "e", "s", "t", "y", "l", "e">>), Star(Ws), Opt(Lit(L_dash)), Star(Ws),
                    Lit(<<"l", "i", "b", "r", "e">>)>>)>>),
        Wb>>)

RGX_WEIGHT ==
  Cat(<<Wb,
        Alt(<<Cat(<<Lit(<<"w", "e", "i", "g", "h", "t">>), Star(Class({"-"} \cup WsChars)), Lit(<<"l", "o", "s", "s">>)>>),
              Lit(<<"s", "e", "m", "a", "g", "l", "u", "t", "i", "d", "e">>),
              Lit(<<"t", "i", "r", "z", "e", "p", "a", "t", "i", "d", "e">>),
              Lit(<<"o", "z", "e", "m", "p", "i", "c">>),
              Lit(<<"w", "e", "g", "o", "v", "y">>)>>),
        Wb>>)

RGX_DME ==
  Cat(<<Wb,
        Alt(<<Cat(<<Lit(<<"b", "l", "o", "o", "d">>), Star(Ws), Lit(<<"p", "r", "e", "s", "s", "u", "r", "e">>), Star(Ws),
                    Lit(<<"m", "o", "n", "i", "t", "o", "r">>), Opt(Lit(L_s))>>),
              Cat(<<Lit(<<"b", "p">>), Star(Ws), Lit(<<"m", "o", "n", "i", "t", "o", "r">>), Opt(Lit(L_s))>>),
              Cat(<<Lit(<<"w", "a", "l", "k", "e", "r">>), Opt(Lit(L_s))>>),
              Cat(<<Lit(<<"w", "h", "e", "e", "l", "c", "h", "a", "i", "r">>), Opt(Lit(L_s))>>),
              Cat(<<Lit(<<"s", "h", "o", "w", "e", "r">>), Star(Ws), Lit(<<"c", "h", "a", "i", "r">>), Opt(Lit(L_s))>>),
              Cat(<<Lit(<<"b", "a", "t", "h">>), Star(Ws), Opt(Lit(L_dash)), Star(Ws),
                    Lit(<<"b", "e", "n", "c", "h">>), Opt(Lit(L_es))>>),
              Cat(<<Lit(<<"c", "o", "m", "m", "o", "d", "e">>), Opt(Lit(L_s))>>),
              Cat(<<Lit(<<"h", "o", "s", "p", "i", "t", "a", "l">>), Star(Ws), Lit(<<"b", "e", "d">>), Opt(Lit(L_s))>>),
              Lit(<<"d", "m", "e">>),
              Cat(<<Lit(<<"m", "e", "d", "i", "c", "a", "l">>), Star(Ws), Lit(<<"e", "q", "u", "i", "p", "m", "e", "n", "t">>)>>)>>),
        Wb>>)

RGX_GREET ==
  Cat(<<Bol, Star(Ws),
        Alt(<<Lit(<<"h", "i">>), Lit(<<"h", "e", "l", "l", "o">>), Lit(<<"h", "e", "y">>), Lit(<<"s", "a", "l", "a", "m">>),
              Lit(<<"s", "a", "l", "a", "a", "m">>), Lit(<<"a", "s", "s", "a", "l", "a", "m", "u", "a", "l", "a", "i", "k", "u", "m">>),
              Cat(<<Lit(<<"a", "s">>), Opt(Lit(L_dash)), Lit(<<"s", "a", "l", "a", "m", "u">>),
                    Opt(Lit(L_space)), Lit(<<"a", "l", "a", "y", "k", "u", "m">>)>>)>>),
        Star(Ws), Star(Lit(L_bang)), Opt(Lit(L_dot)), Eol>>)

\* Mutant: the weight-loss keywords are tried before the CGM keywords.
classify_intent_weightFirst(text) ==
  IF ReMatch(RGX_GREET, text) THEN "greet"
  ELSE IF ReSearch(RGX_WEIGHT, text) THEN "weight"
  ELSE IF ReSearch(RGX_CGM, text) THEN "cgm"
  ELSE IF ReSearch(RGX_DME, text) THEN "dme"
  ELSE "general"

classify_intent(text) ==
  IF ReMatch(RGX_GREET, text) THEN "greet"
  ELSE IF ReSearch(RGX_CGM, text) THEN "cgm"
  ELSE IF ReSearch(RGX_WEIGHT, text) THEN "weight"
  ELSE IF ReSearch(RGX_DME, text) THEN "dme"
  ELSE "general"

\* ----------------------------------------------------------------- prompts
\* The system prompts, each abbreviated to its first line.
GENERAL_PROMPT == <<"Y", "o", "u", " ", "a", "r", "e", " ", "S", "o", "p", "h", "i", "a", ",", " ", "t", "h", "e", " ", "M", "a", "s", "t", "e", "r", " ", "A", "s", "s", "i", "s", "t", "a", "n", "t", " ", "f", "o", "r", " ", "O", "H", "C", " ", "P", "h", "a", "r", "m", "a", "c", "y", ".">>
CGM_PROMPT     == <<"Y", "o", "u", " ", "a", "r", "e", " ", "t", "h", "e", " ", "C", "G", "M", " ", "S", "p", "e", "c", "i", "a", "l", "i", "s", "t", " ", "f", "o", "r", " ", "O", "H", "C", " ", "P", "h", "a", "r", "m", "a", "c", "y", ".">>
WEIGHT_PROMPT  == <<"Y", "o", "u", " ", "a", "r", "e", " ", "t", "h", "e", " ", "W", "e", "i", "g", "h", "t", " ", "L", "o", "s", "s", " ", "S", "p", "e", "c", "i", "a", "l", "i", "s", "t", ".">>
DME_PROMPT     == <<"Y", "o", "u", " ", "a", "r", "e", " ", "t", "h", "e", " ", "G", "e", "n", "e", "r", "a", "l", " ", "D", "M", "E", " ", "S", "p", "e", "c", "i", "a", "l", "i", "s", "t", " ", "(", "T", "e", "x", "a", "s", "-", "c", "o", "m", "p", "l", "i", "a", "n", "t", ")", ".">>

\* The fixed replies of route_message and the placeholder of specialist_turn
\* (its first two characters are U+26A0 and U+FE0F).
RESET_ACK   == <<"O", "k", "a", "y", ",", " ", "I", "'", "v", "e", " ", "r", "e", "s", "e", "t", " ", "t", "h", "e", " ", "c", "o", "n", "v", "e", "r", "s", "a", "t", "i", "o", "n", ".", " ", "H", "o", "w", " ", "c", "a", "n", " ", "I", " ", "h", "e", "l", "p", " ", "y", "o", "u", " ", "t", "o", "d", "a", "y", "?">>
GREETING    == <<"H", "i", "!", " ", "I", "'", "m", " ", "S", "o", "p", "h", "i", "a", ",", " ", "t", "h", "e", " ", "M", "a", "s", "t", "e", "r", " ", "A", "s", "s", "i", "s", "t", "a", "n", "t", " ", "f", "o", "r", " ", "O", "H", "C", " ", "P", "h", "a", "r", "m", "a", "c", "y", ".", " ", "H", "o", "w", " ", "c", "a", "n", " ", "I", " ", "h", "e", "l", "p", " ", "y", "o", "u", " ", "t", "o", "d", "a", "y", "?">>
NO_RESPONSE == <<"U+26A0", "U+FE0F">> \o <<" ", "N", "o", " ", "r", "e", "s", "p", "o", "n", "s", "e", ".">>

ResetCommands == {<<"r", "e", "s", "e", "t">>, <<"e", "x", "i", "t">>, <<"s", "t", "a", "r", "t", " ", "o", "v", "e", "r">>}

\* Temperatures, in tenths.
SpecialistTemp == 2
GeneralTemp == 6

\* ------------------------------------------------------------------ inputs
\* What the user types into st.chat_input (an empty input submits nothing).
UserInputs ==
  { <<"r", "e", "s", "e", "t">>, <<" ", "E", "X", "I", "T", " ">>, <<"S", "t", "a", "r", "t", " ", "O", "v", "e", "r">>,
    <<"H", "i", "!">>,
    <<"D", "o", " ", "y", "o", "u", " ", "s", "u", "p", "p", "o", "r", "t", " ", "D", "e", "x", "c", "o", "m", "?">>,
    <<"W", "h", "a", "t", " ", "a", "b", "o", "u", "t", " ", "s", "e", "m", "a", "g", "l", "u", "t", "i", "d", "e", "?">>,
    <<"I", " ", "n", "e", "e", "d", " ", "a", " ", "w", "a", "l", "k", "e", "r">>,
    <<" ", "W", "h", "a", "t", " ", "a", "r", "e", " ", "y", "o", "u", "r", " ", "h", "o", "u", "r", "s", "?", " ">> }

\* What the completion service answers: message.content is None or a string.
Responses ==
  { [none |-> TRUE,  content |-> << >>],
    [none |-> FALSE, content |-> <<" ", " ">>],
    [none |-> FALSE, content |-> <<" ", "S", "u", "r", "e", ".", " ">>] }

\* ------------------------------------------------------------- route state
RouteKeys == <<"cgm", "weight", "dme", "general">>

InitRoute == [k \in Range(RouteKeys) |-> k = "general"]

\* Mutant: sets the flag of agent and leaves the other flags as they were.
set_active_additive(rt, agent) == [rt EXCEPT ![agent] = TRUE]

set_active(rt, agent) == [k \in DOMAIN rt |-> k = agent]

\* The first key, in dictionary order, whose flag is set; "None" without one.
get_active(rt) ==
  LET on == {i \in DOMAIN RouteKeys : rt[RouteKeys[i]]}
  IN IF on = {} THEN "None"
     ELSE RouteKeys[CHOOSE i \in on : \A j \in on : i <= j]

\* Mutant: general is switched over instead of being set.
reset_route_toggles(rt) ==
  [[k \in DOMAIN rt |-> FALSE] EXCEPT !["general"] = ~rt["general"]]

\* Mutant: clears every flag and does not set general again.
reset_route_clearsAll(rt) == [k \in DOMAIN rt |-> FALSE]

reset_route(rt) == [[k \in DOMAIN rt |-> FALSE] EXCEPT !["general"] = TRUE]

\* ---------------------------------------------------------- context window
Turn(r, c) == [role |-> r, content |-> c]

Max(a, b) == IF a >= b THEN a ELSE b

\* Mutant: the fixed replies, which no completion produced, are left out of
\* the window.
last_n_turns_skipsFixed(log, n_turns) ==
  LET msgs == IF log # << >> /\ log[Len(log)].role = "user"
              THEN SubSeq(log, 1, Len(log) - 1)
              ELSE log
      real == SelectSeq(msgs, LAMBDA m : m.content \notin {RESET_ACK, GREETING})
      keep == Max(0, Len(real) - 2 * n_turns)
  IN SubSeq(real, keep + 1, Len(real))

\* Mutant: the trailing user turn is not dropped before the slice is taken.
last_n_turns_keepsCurrent(log, n_turns) ==
  LET keep == Max(0, Len(log) - 2 * n_turns)
  IN SubSeq(log, keep + 1, Len(log))

last_n_turns_from_global(log, n_turns) ==
  LET msgs == IF log # << >> /\ log[Len(log)].role = "user"
              THEN SubSeq(log, 1, Len(log) - 1)
              ELSE log
      keep == Max(0, Len(msgs) - 2 * n_turns)
  IN SubSeq(msgs, keep + 1, Len(msgs))

\* ------------------------------------------------------- reply generation
\* A completion request: the function that issues it, the message list and
\* the temperature handed to chat_complete.
NoCall == [fn |-> "none", messages |-> << >>, temperature |-> 0]

specialist_turn(system_prompt, user_text, log) ==
  [fn |-> "specialist_turn",
   messages |-> <<Turn("system", system_prompt)>>
                  \o last_n_turns_from_global(log, 1)
                  \o <<Turn("user", user_text)>>,
   temperature |-> SpecialistTemp]

\* Mutant: the system prompt is appended after the window and the query.
general_reply_systemLast(query, log) ==
  [fn |-> "general_reply",
   messages |-> last_n_turns_from_global(log, 1)
                  \o <<Turn("user", query)>>
                  \o <<Turn("system", GENERAL_PROMPT)>>,
   temperature |-> GeneralTemp]

general_reply(query, log) ==
  [fn |-> "general_reply",
   messages |-> <<Turn("system", GENERAL_PROMPT)>>
                  \o last_n_turns_from_global(log, 1)
                  \o <<Turn("user", query)>>,
   temperature |-> GeneralTemp]

cgm_reply(query, log) == specialist_turn(CGM_PROMPT, query, log)

weight_reply(query, log) == specialist_turn(WEIGHT_PROMPT, query, log)

dme_reply(query, log) == specialist_turn(DME_PROMPT, query, log)

\* Mutant: the weight agent is dispatched to the DME specialist.
_dispatch_weightToDme(agent, query, log) ==
  IF agent = "cgm" THEN cgm_reply(query, log)
  ELSE IF agent = "weight" THEN dme_reply(query, log)
  ELSE IF agent = "dme" THEN dme_reply(query, log)
  ELSE general_reply(query, log)

_dispatch(agent, query, log) ==
  IF agent = "cgm" THEN cgm_reply(query, log)
  ELSE IF agent = "weight" THEN weight_reply(query, log)
  ELSE IF agent = "dme" THEN dme_reply(query, log)
  ELSE general_reply(query, log)

\* chat_complete's return value for a response of the service.
chat_complete(resp) == Strip(IF resp.none THEN << >> ELSE resp.content)

\* What the function that issued the request returns for that response.
ReplyOf(fn, resp) ==
  IF fn = "specialist_turn" /\ chat_complete(resp) = << >>
  THEN NO_RESPONSE
  ELSE chat_complete(resp)

\* ------------------------------------------------------------------ router
\* classify_intent on the trimmed inputs, computed once.
IntentOf == [t \in {Strip(u) : u \in UserInputs} |-> classify_intent(t)]

\* Mutant: the command is compared without lower-casing.
IsResetCommand_caseSensitive(txt) == txt \in ResetCommands

IsResetCommand(txt) == Lower(txt) \in ResetCommands

\* Mutant: a general intent does not leave an active specialist.
route_message_stickySpecialist(user_text, rt, log) ==
  LET txt    == Strip(user_text)
      intent == IntentOf[txt]
      active == get_active(rt)
      Out(b, i, r, rep, c) ==
        [branch |-> b, intent |-> i, route |-> r, reply |-> rep, call |-> c]
  IN IF IsResetCommand(txt)
       THEN Out("reset", "none", reset_route(rt), RESET_ACK, NoCall)
     ELSE IF intent = "greet"
       THEN Out("greet", intent, reset_route(rt), GREETING, NoCall)
     ELSE IF active # "None"
       THEN IF intent # active /\ intent # "general"
              THEN Out("switch", intent, set_active(rt, intent),
                       << >>, _dispatch(intent, txt, log))
            ELSE Out("continue", intent, rt,
                     << >>, _dispatch(active, txt, log))
     ELSE Out("no_active", intent, set_active(rt, "general"),
              << >>, general_reply(txt, log))

\* route_message up to its return or to the completion call it issues: the
\* branch it took, the intent it classified (none before classification),
\* the route flags it leaves, and either the reply it returns or the request
\* it hands to chat_complete.
route_message(user_text, rt, log) ==
  LET txt    == Strip(user_text)
      intent == IntentOf[txt]
      active == get_active(rt)
      Out(b, i, r, rep, c) ==
        [branch |-> b, intent |-> i, route |-> r, reply |-> rep, call |-> c]
  IN IF IsResetCommand(txt)
       THEN Out("reset", "none", reset_route(rt), RESET_ACK, NoCall)
     ELSE IF intent = "greet"
       THEN Out("greet", intent, reset_route(rt), GREETING, NoCall)
     ELSE IF active # "None"
       THEN IF intent = "general"
              THEN Out("to_general", intent, set_active(rt, "general"),
                       << >>, general_reply(txt, log))
            ELSE IF intent # active
              THEN Out("switch", intent, set_active(rt, intent),
                       << >>, _dispatch(intent, txt, log))
            ELSE Out("continue", intent, rt,
                     << >>, _dispatch(active, txt, log))
     ELSE Out("no_active", intent, set_active(rt, "general"),
              << >>, general_reply(txt, log))

\* ------------------------------------------------------------------- state
VARIABLES
  messages,   \* st.session_state.messages, the global chat log
  route,      \* st.session_state.route, the four boolean flags
  pc,         \* "idle" between script runs, "chat_complete" inside the call
  call,       \* the completion request of the current run, NoCall without one
  run,        \* history of the current (or last) script run
  submitted,  \* number of chat inputs submitted so far
  probe       \* a function applied on its own: arguments and result

vars == <<messages, route, pc, call, run, submitted, probe>>

NoProbe == [kind |-> "none"]

\* op: what caused the run; input: the chat input; prev: get_active() when the
\* run began; branch, intent: as route_message took them; before: length of
\* the log when the run began; calls: completion calls issued; outcome:
\* "pending" inside the call, then "returned" or "raised"; text: what
\* chat_complete returned; reply: what route_message returned.
NoRun ==
  [op |-> "start", input |-> << >>, prev |-> "general", branch |-> "none",
   intent |-> "none", before |-> 0, calls |-> 0, outcome |-> "returned",
   text |-> << >>, reply |-> << >>]

Init ==
  /\ messages = << >>
  /\ route = InitRoute
  /\ pc = "idle"
  /\ call = NoCall
  /\ run = NoRun
  /\ submitted = 0
  /\ probe = NoProbe

\* A script run with a chat input: the user turn is appended, route_message
\* runs; a reset command or a greeting returns at once and the assistant turn
\* is appended, any other message reaches the completion call.
Submit(user_input) ==
  /\ pc = "idle"
  /\ submitted < MaxMsgs
  /\ user_input # << >>
  /\ LET log == Append(messages, Turn("user", user_input))
         out == route_message(user_input, route, log)
         rec == [op |-> "message", input |-> user_input,
                 prev |-> get_active(route), branch |-> out.branch,
                 intent |-> out.intent, before |-> Len(messages), calls |-> 0,
                 outcome |-> "returned", text |-> << >>,
                 reply |-> out.reply]
     IN /\ route' = out.route
        /\ call' = out.call
        /\ IF out.call = NoCall
           THEN /\ messages' = Append(log, Turn("assistant", out.reply))
                /\ pc' = "idle"
                /\ run' = rec
           ELSE /\ messages' = log
                /\ pc' = "chat_complete"
                /\ run' = [rec EXCEPT !.calls = 1, !.outcome = "pending"]
  /\ submitted' = submitted + 1
  /\ UNCHANGED probe

\* Mutant: the reply is returned but no assistant turn is stored.
CompleteOk_noAppend(resp) ==
  /\ pc = "chat_complete"
  /\ run' = [run EXCEPT !.outcome = "returned", !.text = chat_complete(resp),
                        !.reply = ReplyOf(call.fn, resp)]
  /\ pc' = "idle"
  /\ UNCHANGED <<messages, route, call, submitted, probe>>

\* Mutant: the assistant turn is stored twice.
CompleteOk_appendsTwice(resp) ==
  /\ pc = "chat_complete"
  /\ LET reply == ReplyOf(call.fn, resp)
     IN /\ messages' = messages \o <<Turn("assistant", reply),
                                      Turn("assistant", reply)>>
        /\ run' = [run EXCEPT !.outcome = "returned",
                             !.text = chat_complete(resp), !.reply = reply]
  /\ pc' = "idle"
  /\ UNCHANGED <<route, call, submitted, probe>>

\* The completion service answers: the issuing function returns its reply,
\* route_message returns it and the caller appends the assistant turn.
CompleteOk(resp) ==
  /\ pc = "chat_complete"
  /\ LET reply == ReplyOf(call.fn, resp)
     IN /\ messages' = Append(messages, Turn("assistant", reply))
        /\ run' = [run EXCEPT !.outcome = "returned", !.text = chat_complete(resp),
                             !.reply = reply]
  /\ pc' = "idle"
  /\ UNCHANGED <<route, call, submitted, probe>>

\* Mutant: the route the run began with is restored when the call raises.
CompleteRaise_restoresRoute ==
  /\ pc = "chat_complete"
  /\ pc' = "idle"
  /\ route' = set_active(route, run.prev)
  /\ run' = [run EXCEPT !.outcome = "raised"]
  /\ UNCHANGED <<messages, call, submitted, probe>>

\* The completion call raises: nothing between chat_complete and the top of
\* the script catches, so the run ends without an assistant turn.
CompleteRaise ==
  /\ pc = "chat_complete"
  /\ pc' = "idle"
  /\ run' = [run EXCEPT !.outcome = "raised"]
  /\ UNCHANGED <<messages, route, call, submitted, probe>>

\* Mutant: the sidebar button also empties the chat log.
SidebarReset_clearsLog ==
  /\ pc = "idle"
  /\ route' = reset_route(route)
  /\ messages' = << >>
  /\ call' = NoCall
  /\ run' = [NoRun EXCEPT !.op = "sidebar", !.prev = get_active(route),
                          !.before = Len(messages)]
  /\ UNCHANGED <<pc, submitted, probe>>

\* A script run caused by the sidebar button "Reset conversation".
SidebarReset ==
  /\ pc = "idle"
  /\ route' = reset_route(route)
  /\ call' = NoCall
  /\ run' = [NoRun EXCEPT !.op = "sidebar", !.prev = get_active(route),
                          !.before = Len(messages)]
  /\ UNCHANGED <<messages, pc, submitted, probe>>

Next ==
  \/ \E u \in UserInputs : Submit(u)
  \/ \E r \in Responses : CompleteOk(r)
  \/ CompleteRaise
  \/ SidebarReset

Spec == Init /\ [][Next]_vars

\* The session in which no completion call raises.
NextNoRaise ==
  \/ \E u \in UserInputs : Submit(u)
  \/ \E r \in Responses : CompleteOk(r)
  \/ SidebarReset

SpecNoRaise == Init /\ [][NextNoRaise]_vars

\* ------------------------------------------------- the classifier on its own
\* Texts put together from words: one greeting, one keyword of each keyword
\* set and one word of none, joined by single spaces, bare or padded.
W_Hello   == <<"H", "e", "l", "l", "o">>
W_Dexcom  == <<"D", "e", "x", "c", "o", "m">>
W_ozempic == <<"o", "z", "e", "m", "p", "i", "c">>
W_walkers == <<"w", "a", "l", "k", "e", "r", "s">>
W_pills   == <<"p", "i", "l", "l", "s">>

Words == {W_Hello, W_Dexcom, W_ozempic, W_walkers, W_pills}

WordSeqs == UNION {[1..n -> Words] : n \in 0..MaxWords}

Pads == {<< >>, L_space}

RECURSIVE Join(_)
Join(ws) ==
  IF ws = << >> THEN << >>
  ELSE IF Len(ws) = 1 THEN ws[1]
  ELSE ws[1] \o L_space \o Join(Tail(ws))

InitClassify ==
  /\ messages = << >> /\ route = InitRoute /\ pc = "idle"
  /\ call = NoCall /\ run = NoRun /\ submitted = 0
  /\ \E ws \in WordSeqs, p \in Pads :
       probe = [kind |-> "classify", words |-> ws,
                text |-> p \o Join(ws) \o p, intent |-> "none"]

Classify ==
  /\ probe.kind = "classify" /\ probe.intent = "none"
  /\ probe' = [probe EXCEPT !.intent = classify_intent(probe.text)]
  /\ UNCHANGED <<messages, route, pc, call, run, submitted>>

NextClassify == Classify

SpecClassify == InitClassify /\ [][NextClassify]_vars

\* --------------------------------------------- two sessions, the same message
\* route_message applied to one input and one log under two active routes.
PairLogs ==
  { << >>,
    <<Turn("user", W_pills), Turn("assistant", RESET_ACK)>>,
    <<Turn("user", W_Dexcom), Turn("assistant", W_pills),
      Turn("user", W_walkers)>> }

NoOut ==
  [branch |-> "none", intent |-> "none", route |-> InitRoute,
   reply |-> << >>, call |-> NoCall]

InitPair ==
  /\ messages = << >> /\ route = InitRoute /\ pc = "idle"
  /\ call = NoCall /\ run = NoRun /\ submitted = 0
  /\ \E u \in UserInputs, a \in Range(RouteKeys), b \in Range(RouteKeys),
        log \in PairLogs :
       probe = [kind |-> "pair", input |-> u, a |-> a, b |-> b, log |-> log,
                done |-> FALSE, outA |-> NoOut, outB |-> NoOut]

RoutePair ==
  /\ probe.kind = "pair" /\ ~probe.done
  /\ LET log == Append(probe.log, Turn("user", probe.input))
     IN probe' =
          [probe EXCEPT
             !.done = TRUE,
             !.outA = route_message(probe.input,
                                    set_active(InitRoute, probe.a), log),
             !.outB = route_message(probe.input,
                                    set_active(InitRoute, probe.b), log)]
  /\ UNCHANGED <<messages, route, pc, call, run, submitted>>

NextPair == RoutePair

SpecPair == InitPair /\ [][NextPair]_vars

\* ------------------------------------------------------------------- types
Routes == Range(RouteKeys)

Specialists == {"cgm", "weight", "dme"}

TypeOK ==
  /\ DOMAIN route = Routes
  /\ \A k \in Routes : route[k] \in BOOLEAN
  /\ pc \in {"idle", "chat_complete"}
  /\ \A i \in DOMAIN messages : messages[i].role \in {"user", "assistant"}
  /\ submitted \in 0..MaxMsgs

\* ------------------------------------------------------------------ claims
PromptOf ==
  [cgm |-> CGM_PROMPT, weight |-> WEIGHT_PROMPT, dme |-> DME_PROMPT,
   general |-> GENERAL_PROMPT]

\* For each input, the trimmed text route_message works on and what the
\* message is by the router's rules: a reset command, else the classifier's
\* label of the trimmed text.
InputFacts ==
  [u \in UserInputs |->
     [txt   |-> Strip(u),
      label |-> IF Lower(Strip(u)) \in ResetCommands THEN "command"
                ELSE classify_intent(Strip(u))]]

Txt == InputFacts[run.input].txt

Label == InputFacts[run.input].label

IsCommand == Label = "command"

OnMessage == run.op = "message"

LastTurn == messages[Len(messages)]

\* C1: in every reachable state exactly one of the four route flags is true,
\* so get_active() never returns None and route_message never takes its
\* 'no route active' branch.
C1_ExactlyOneRoute ==
  /\ Cardinality({k \in Routes : route[k]}) = 1
  /\ get_active(route) # "None"
  /\ run.branch # "no_active"

\* A specialist took over from another specialist.
C1_Witness ==
  /\ OnMessage /\ run.branch = "switch"
  /\ run.prev = "cgm" /\ route["dme"] /\ ~route["cgm"]

\* C2: for every current route, a message whose trimmed, lower-cased text is
\* reset, exit or start over sets the route to general, returns the fixed
\* acknowledgement and issues no completion call; the check comes before
\* classification.
C2_ResetCommand ==
  (OnMessage /\ IsCommand) =>
     /\ run.branch = "reset" /\ run.intent = "none"
     /\ get_active(route) = "general"
     /\ run.calls = 0 /\ call = NoCall /\ pc = "idle"
     /\ run.reply = RESET_ACK
     /\ LastTurn = Turn("assistant", RESET_ACK)

\* An upper-case, padded command arrives while a specialist is active.
C2_Witness ==
  /\ OnMessage /\ run.input = <<" ", "E", "X", "I", "T", " ">>
  /\ run.prev = "weight" /\ route["general"]

\* C3: for every current route, a message that classifies as greet resets the
\* route to general, returns the fixed greeting and issues no completion
\* call.
C3_Greeting ==
  (OnMessage /\ Label = "greet") =>
     /\ get_active(route) = "general"
     /\ route = InitRoute
     /\ run.calls = 0 /\ call = NoCall /\ pc = "idle"
     /\ run.reply = GREETING
     /\ LastTurn = Turn("assistant", GREETING)

\* A greeting arrives while the DME specialist is active.
C3_Witness ==
  /\ OnMessage /\ run.input = <<"H", "i", "!">>
  /\ run.prev = "dme" /\ route["general"] /\ ~route["dme"]

\* C4: for every current route r and every message whose intent i is a
\* specialist, the route is i afterwards and the completion request for that
\* message carries i's system prompt, both when i differs from r and when i
\* equals r.
C4_SpecialistIntent ==
  (OnMessage /\ Label \in Specialists) =>
     /\ get_active(route) = Label
     /\ route = [k \in Routes |-> k = Label]
     /\ run.calls = 1
     /\ call.messages[1] = Turn("system", PromptOf[Label])
     /\ call.messages[Len(call.messages)] = Turn("user", Txt)

\* The weight-loss question of the spec, asked of the CGM specialist: the
\* call in flight already carries the weight-loss prompt.
C4_Witness ==
  /\ OnMessage /\ pc = "chat_complete"
  /\ run.prev = "cgm" /\ run.input = <<"W", "h", "a", "t", " ", "a", "b", "o", "u", "t", " ", "s", "e", "m", "a", "g", "l", "u", "t", "i", "d", "e", "?">>
  /\ route["weight"] /\ call.messages[1].content = WEIGHT_PROMPT

\* C5: for every current route, a message that is not a reset command and
\* classifies as general sets the route to general and is answered with the
\* general system prompt.
C5_GeneralIntent ==
  (OnMessage /\ Label = "general") =>
     /\ get_active(route) = "general"
     /\ route = InitRoute
     /\ run.calls = 1
     /\ call.fn = "general_reply"
     /\ call.messages[1] = Turn("system", GENERAL_PROMPT)
     /\ call.messages[Len(call.messages)] = Turn("user", Txt)

\* A padded general question sent while a specialist is active: the request
\* ends with the trimmed text.
C5_Witness ==
  /\ OnMessage /\ pc = "chat_complete"
  /\ run.prev \in Specialists /\ run.input = <<" ", "W", "h", "a", "t", " ", "a", "r", "e", " ", "y", "o", "u", "r", " ", "h", "o", "u", "r", "s", "?", " ">>
  /\ route["general"] /\ call.messages[Len(call.messages)].content # run.input

\* C6: one user message issues at most one completion call, exactly one when
\* it is neither a reset command nor a greeting and none when it is; the user
\* turn is appended before routing and exactly one assistant turn after
\* route_message returns, so the log grows by two turns.
C6_OneCallTwoTurns ==
  OnMessage =>
     /\ run.calls \in {0, 1}
     /\ run.calls = 0 <=> Label \in {"command", "greet"}
     /\ run.calls = 0 <=> call = NoCall
     /\ Len(messages) > run.before
     /\ messages[run.before + 1] = Turn("user", run.input)
     /\ pc = "chat_complete" => Len(messages) = run.before + 1
     /\ (pc = "idle" /\ run.outcome = "returned") =>
          /\ Len(messages) = run.before + 2
          /\ LastTurn = Turn("assistant", run.reply)

\* A message that went through the completion call and came back.
C6_Witness ==
  /\ OnMessage /\ pc = "idle" /\ run.calls = 1 /\ run.outcome = "returned"
  /\ run.before = 2 /\ Len(messages) = 4

\* The turns of the log that precede the current user turn, and the last two
\* of them.
Prior == SubSeq(messages, 1, run.before)

LastTwo(s) == IF Len(s) <= 2 THEN s ELSE SubSeq(s, Len(s) - 1, Len(s))

\* C7: the message list of a completion request is the route's system prompt,
\* then the last two turns of the log that precede the current user turn (all
\* of them when fewer than two exist) in log order, then the current user
\* message, once and last.
C7_RequestShape ==
  (OnMessage /\ run.calls = 1) =>
     call.messages = <<Turn("system", PromptOf[get_active(route)])>>
                       \o LastTwo(Prior)
                       \o <<Turn("user", Txt)>>

\* More than two turns precede the current one, so the window is cut.
C7_Witness ==
  /\ OnMessage /\ pc = "chat_complete"
  /\ run.before > 2 /\ Len(call.messages) = 4

\* C8: for every route, an empty or whitespace-only completion response makes
\* the reply returned and stored in the log the fixed placeholder, never an
\* empty string.
C8_PlaceholderOnEmpty ==
  (OnMessage /\ run.calls = 1 /\ run.outcome = "returned"
     /\ run.text = << >>) =>
     /\ run.reply = NO_RESPONSE
     /\ LastTurn = Turn("assistant", NO_RESPONSE)

\* C9: a completion call that raises is caught and turned into the fixed
\* placeholder: route_message still returns a reply and one assistant turn is
\* appended.
C9_FailureCaught ==
  (OnMessage /\ run.outcome = "raised") =>
     /\ Len(messages) = run.before + 2
     /\ LastTurn = Turn("assistant", NO_RESPONSE)

\* C10: the log is append-only: no operation removes, reorders or rewrites a
\* turn, and a reset leaves every earlier turn in place.
C10_AppendOnly ==
  [][/\ Len(messages') >= Len(messages)
     /\ SubSeq(messages', 1, Len(messages)) = messages]_vars

\* The sidebar button was pressed with turns in the log, and they are there.
C10_Witness ==
  /\ run.op = "sidebar" /\ run.prev \in Specialists
  /\ Len(messages) >= 2 /\ route = InitRoute

\* C11: a reset command sets the route to general and returns the fixed
\* acknowledgement whatever the route was, and a reset command that follows a
\* reset command leaves the route flags as they are and returns the same
\* acknowledgement.
C11_ResetIdempotent ==
  [][(submitted' # submitted /\ Label' = "command") =>
       /\ route' = InitRoute
       /\ run'.reply = RESET_ACK
       /\ (OnMessage /\ Label = "command") =>
            /\ route' = route
            /\ run'.reply = run.reply]_vars

\* The second of two reset commands in a row, sent after the DME specialist
\* was active.
C11_Witness ==
  /\ OnMessage /\ Label = "command" /\ run.prev = "general"
  /\ run.before = 4
  /\ messages[4] = Turn("assistant", RESET_ACK)
  /\ messages[1] = Turn("user", <<"I", " ", "n", "e", "e", "d", " ", "a", " ", "w", "a", "l", "k", "e", "r">>)
  /\ messages[2].role = "assistant"
  /\ route = InitRoute

\* C12: every completion request holds exactly one system message, its first
\* element; every other message is a user or an assistant message, and the
\* log never holds a system turn.
C12_OneSystemMessage ==
  /\ \A i \in DOMAIN messages : messages[i].role \in {"user", "assistant"}
  /\ call # NoCall =>
       /\ Len(call.messages) >= 2
       /\ call.messages[1].role = "system"
       /\ \A i \in 2..Len(call.messages) :
            call.messages[i].role \in {"user", "assistant"}
       /\ Cardinality({i \in DOMAIN call.messages :
                         call.messages[i].role = "system"}) = 1

\* A request with a full window is in flight.
C12_Witness ==
  /\ pc = "chat_complete" /\ call.fn = "general_reply"
  /\ Len(call.messages) = 4 /\ Len(messages) >= 5

\* The window of the request: what lies between the system prompt and the
\* current user message.
Window == SubSeq(call.messages, 2, Len(call.messages) - 1)

\* C14: the window comes from the one global log and does not depend on the
\* route: the turns that precede the current user turn, fixed acknowledgement
\* and greeting replies included, are sent under the new route's system prompt
\* whatever the route was when they were produced.
C14_WindowIgnoresRoute ==
  (OnMessage /\ run.calls = 1) =>
     /\ call.messages[1].content = PromptOf[get_active(route)]
     /\ run.before >= 1 =>
          /\ Window # << >>
          /\ Window[Len(Window)] = messages[run.before]
     /\ run.before >= 2 =>
          /\ Len(Window) = 2
          /\ Window[1] = messages[run.before - 1]

\* A weight-loss question after a CGM question whose call raised, which came
\* after a reset exchange: the acknowledgement and the CGM user turn go out
\* under the weight-loss prompt.
C14_Witness ==
  /\ OnMessage /\ pc = "chat_complete"
  /\ run.prev = "cgm" /\ route["weight"]
  /\ call.messages[1].content = WEIGHT_PROMPT
  /\ Window = <<Turn("assistant", RESET_ACK),
                Turn("user", <<"D", "o", " ", "y", "o", "u", " ", "s", "u", "p", "p", "o", "r", "t", " ", "D", "e", "x", "c", "o", "m", "?">>)>>

\* The route a message leaves active.
Target == IF Label \in Specialists THEN Label ELSE "general"

\* C15: the route flags are written before the completion call: while the
\* call is in flight get_active() is the route whose system prompt is in the
\* request, and if the call raises the route change persists while the log
\* ends with the user turn and no assistant turn.
C15_FlagsBeforeCall ==
  /\ pc = "chat_complete" =>
       /\ OnMessage /\ run.calls = 1
       /\ get_active(route) = Target
       /\ call.messages[1] = Turn("system", PromptOf[get_active(route)])
  /\ (OnMessage /\ run.outcome = "raised") =>
       /\ get_active(route) = Target
       /\ call.messages[1] = Turn("system", PromptOf[get_active(route)])
       /\ Len(messages) = run.before + 1
       /\ LastTurn = Turn("user", run.input)

\* The call of a CGM question sent to the general assistant raised: the route
\* stays cgm and the log ends with the question.
C15_Witness ==
  /\ OnMessage /\ run.outcome = "raised" /\ pc = "idle"
  /\ run.prev = "general" /\ route["cgm"] /\ ~route["general"]
  /\ LastTurn.role = "user"

IsUserAssistantPairs(log) ==
  /\ Len(log) % 2 = 0
  /\ \A i \in DOMAIN log :
       log[i].role = IF i % 2 = 1 THEN "user" ELSE "assistant"

\* C17: as long as no completion call raises, between messages the log has
\* even length and alternates user, assistant from a user turn on, and the
\* window of every request is empty (first message) or the previous user turn
\* followed by the previous assistant reply.
C17_PairsWithoutRaise ==
  /\ pc = "idle" => IsUserAssistantPairs(messages)
  /\ (OnMessage /\ run.calls = 1) =>
       /\ IsUserAssistantPairs(Prior)
       /\ IF run.before = 0 THEN Window = << >>
          ELSE /\ Window = <<messages[run.before - 1], messages[run.before]>>
               /\ Window[1].role = "user"
               /\ Window[2].role = "assistant"

\* The third message of a session without a raise is in its call.
C17_Witness ==
  /\ pc = "chat_complete" /\ run.before = 4
  /\ IsUserAssistantPairs(Prior) /\ Len(Window) = 2

\* The label a text made of the words ws must get: greet when the greeting is
\* the whole text, else the first of cgm, weight, dme of which it holds a
\* keyword, else general.
ExpectedIntent(ws) ==
  IF ws = <<W_Hello>> THEN "greet"
  ELSE IF W_Dexcom \in Range(ws) THEN "cgm"
  ELSE IF W_ozempic \in Range(ws) THEN "weight"
  ELSE IF W_walkers \in Range(ws) THEN "dme"
  ELSE "general"

\* C13: classify_intent applies a strict ordered precedence: greet if the
\* whole text is a greeting, else cgm, else weight, else dme by keyword, else
\* general; a text with keywords of several sets gets the earliest set, and
\* an empty or whitespace-only text is general.
C13_OrderedPrecedence ==
  (probe.kind = "classify" /\ probe.intent # "none") =>
     probe.intent = ExpectedIntent(probe.words)

\* A text that names the weight-loss keyword before the CGM keyword and the
\* DME keyword last is cgm.
C13_Witness ==
  /\ probe.kind = "classify"
  /\ probe.words = <<W_ozempic, W_Dexcom, W_walkers>>
  /\ probe.intent = "cgm"

\* C16: routing is memoryless: two sessions that differ only in the active
\* route are left with the same route by the same message (general for a
\* reset command, a greeting or a general intent, else the specialist
\* intent), and their completion requests, if any, are the same.
C16_Memoryless ==
  (probe.kind = "pair" /\ probe.done) =>
     /\ probe.outA.route = probe.outB.route
     /\ probe.outA.call = probe.outB.call
     /\ probe.outA.reply = probe.outB.reply
     /\ get_active(probe.outA.route) =
          IF InputFacts[probe.input].label \in Specialists
          THEN InputFacts[probe.input].label ELSE "general"

\* A general question in a session with the CGM specialist active and in one
\* with the general assistant active.
C16_Witness ==
  /\ probe.kind = "pair" /\ probe.done
  /\ probe.a = "cgm" /\ probe.b = "general"
  /\ probe.input = <<" ", "W", "h", "a", "t", " ", "a", "r", "e", " ", "y", "o", "u", "r", " ", "h", "o", "u", "r", "s", "?", " ">>
  /\ probe.outA.route = InitRoute
  /\ probe.outA.call.fn = "general_reply"

=============================================================================
